---- MODULE Spec2Model ----
(***************************************************************************)
(* Dropzone (src/main.py): a single-user, basic-auth protected upload      *)
(* service.  POST /upload dispatches on a workflow field to the text,      *)
(* music and inbox branches; the music branch runs the beets import tool   *)
(* as a subprocess and then asks Navidrome to rescan.                      *)
(*                                                                         *)
(* The model keeps the file system (regular files and directories), the    *)
(* requests in flight on the single asyncio event loop, the deployment     *)
(* environment (identity and capabilities of the server process), and the  *)
(* record of the request that completed last.                              *)
(***************************************************************************)
EXTENDS Integers, Sequences, FiniteSets, TLC

VARIABLES
    started,    \* "no" | "up" | "failed": outcome of the startup event
    env,        \* deployment: PUID/PGID configured?, launcher uid/gid, capabilities
    dirs,       \* set of existing directories (resolved paths)
    fs,         \* function: resolved path of a regular file -> content (sequence of chunks)
    req,        \* request id -> the handler's locals and its position (pc)
    loop,       \* id of the request occupying the event-loop thread, 0 when it is free
    nreq,       \* number of POST /upload requests accepted so far
    last        \* the request that completed last, with its response and effects

vars == <<started, env, dirs, fs, req, loop, nreq, last>>

----------------------------------------------------------------------------
(* Bounds of the model *)

\* number of POST /upload requests followed
MaxRequests == 2

----------------------------------------------------------------------------
(* Configuration (environment defaults) *)

DROPZONE_USER == "admin"
DROPZONE_PASSWORD == "changeme"
ROOT == <<"/">>
DATA_DIR == <<"/", "data">>
MUSIC_DIR == <<"/", "data", "music">>
INBOX_DIR == <<"/", "data", "inbox">>
SNIPPETS_FILE == <<"/", "data", "snippets.txt">>
TMP_DIR == <<"/", "tmp">>
BEETS_DIR == <<"/", "config", "beets">>
PUID == 1000
PGID == 1000
TIMEZONE == "America/New_York"

\* zone names the tz database knows
KnownZones == {"America/New_York", "UTC"}

\* the beets config template as a sequence of tokens
BeetsTemplate == <<"directory: ", "${MUSIC_DIR}", "library: ", "${BEETS_DIR}", "/library.db">>

----------------------------------------------------------------------------
(* Inputs *)

Users == {"admin", "eve"}
Passwords == {"changeme", "guess"}
Workflows == {"text", "music", "inbox", "bogus"}

\* client-supplied filenames, as path components ("/" first: absolute; <<>>: empty)
Filenames == { <<>>,
               <<"report.pdf">>,
               <<"extracted">>,
               <<"..", "snippets.txt">>,
               <<"/", "data", "music", "x.zip">> }

\* payloads: a valid archive, a damaged archive whose end record is intact,
\* and a non-archive
Payloads == {"ZIP", "ZIPBAD", "B1"}

NoFile == [filename |-> <<"-">>, bytes |-> "-"]
Files == {NoFile} \cup [filename : Filenames, bytes : Payloads]

\* text fields as sequences of characters; <<"-none-">> stands for an absent field
NoText == <<"-none-">>
Texts == { NoText, <<>>, <<" ", "h", "i", " ">> }

\* what accompanies a request in a field its workflow does not read
SampleFiles == { NoFile, [filename |-> <<"report.pdf">>, bytes |-> "B1"] }
SampleTexts == { NoText, <<" ", "h", "i", " ">> }

\* fresh names handed out by tempfile, one per request id
TmpDirNames == <<"d1", "d2", "d3", "d4", "d5", "d6">>
TmpCfgNames == <<"c1.yaml", "c2.yaml", "c3.yaml", "c4.yaml", "c5.yaml", "c6.yaml">>

\* deployments: no PUID/PGID; PUID/PGID with the server running as uid 0 under
\* each capability set
CapSets == { {}, {"CHOWN", "SETGID", "SETUID"}, {"CHOWN", "SETGID"}, {"CHOWN", "SETUID"} }
Envs == { [privDrop |-> FALSE, uid |-> 0, gid |-> 0, caps |-> {"CHOWN", "SETGID", "SETUID"}] }
        \cup [privDrop : {TRUE}, uid : {0}, gid : {0}, caps : CapSets]

----------------------------------------------------------------------------
(* Paths *)

Front(s) == SubSeq(s, 1, Len(s) - 1)

\* pathlib's "/": an absolute right operand replaces the left one
Join(base, name) == IF name # <<>> /\ name[1] = "/" THEN name ELSE base \o name

RECURSIVE ResolveFrom(_, _)
ResolveFrom(acc, rest) ==
    IF rest = <<>> THEN acc
    ELSE LET c == Head(rest) IN
         IF c = "." \/ c = "/" THEN ResolveFrom(acc, Tail(rest))
         ELSE IF c = ".." THEN ResolveFrom(IF Len(acc) > 1 THEN Front(acc) ELSE acc, Tail(rest))
         ELSE ResolveFrom(Append(acc, c), Tail(rest))

\* the file the operating system reaches for an absolute path
Resolve(p) == ResolveFrom(ROOT, p)

Parent(p) == IF Len(p) > 1 THEN Front(p) ELSE p

IsUnder(p, d) == Len(p) > Len(d) /\ SubSeq(p, 1, Len(d)) = d

----------------------------------------------------------------------------
(* File contents *)

\* one written unit of a file: an uploaded payload, a snippet record, the
\* resolved config, or an extracted track
Chunk(kind, data, ts, zone) == [kind |-> kind, data |-> data, ts |-> ts, zone |-> zone]

RawChunk(bytes) == Chunk("raw", <<bytes>>, 0, "")

IsSpace(c) == c = " "

RECURSIVE LStrip(_)
LStrip(s) == IF s # <<>> /\ IsSpace(Head(s)) THEN LStrip(Tail(s)) ELSE s

RECURSIVE RStrip(_)
RStrip(s) == IF s # <<>> /\ IsSpace(s[Len(s)]) THEN RStrip(Front(s)) ELSE s

\* str.strip()
Strip(s) == RStrip(LStrip(s))

\* ZoneInfo(TIMEZONE), falling back to UTC for an unknown name
Zone == IF TIMEZONE \in KnownZones THEN TIMEZONE ELSE "UTC"

\* text.strip() + "\n\n" + timestamp + "\n---\n\n"
SnippetRecord(text, now) == Chunk("rec", Strip(text), now, Zone)

\* raw.replace("${BEETS_DIR}", BEETS_DIR).replace("${MUSIC_DIR}", str(MUSIC_DIR))
ResolveConfig(raw) ==
    [i \in 1..Len(raw) |->
        IF raw[i] = "${BEETS_DIR}" THEN "/config/beets"
        ELSE IF raw[i] = "${MUSIC_DIR}" THEN "/data/music"
        ELSE raw[i]]

\* zipfile.is_zipfile: an end-of-central-directory record is found
IsZipfile(bytes) == bytes \in {"ZIP", "ZIPBAD"}

\* ZipFile(...).extractall succeeds only on an intact archive
ExtractOk(bytes) == bytes = "ZIP"

----------------------------------------------------------------------------
(* Credentials *)

\* bug variant: one matching field is enough
RequireAuthOneField(user, pass) == user = DROPZONE_USER \/ pass = DROPZONE_PASSWORD

\* require_auth: both fields must match
RequireAuth(user, pass) == user = DROPZONE_USER /\ pass = DROPZONE_PASSWORD

----------------------------------------------------------------------------
(* Identity of the import subprocess *)

SetgidOk(e, g) == "SETGID" \in e.caps \/ g = e.gid
SetuidOk(e, u) == "SETUID" \in e.caps \/ u = e.uid

\* os.chown on a file the process owns
ChownOk(e, u, g) == "CHOWN" \in e.caps \/ (u = e.uid /\ g = e.gid)

NoProc == [uid |-> -1, gid |-> -1, home |-> "-"]

\* _drop_privs in the child, and the HOME override: setgid, then setuid, any
\* OSError swallowed (a failing setgid skips setuid)
DropPrivs(e) ==
    IF ~e.privDrop THEN [uid |-> e.uid, gid |-> e.gid, home |-> "inherited"]
    ELSE IF ~SetgidOk(e, PGID) THEN [uid |-> e.uid, gid |-> e.gid, home |-> "/tmp"]
    ELSE IF ~SetuidOk(e, PUID) THEN [uid |-> e.uid, gid |-> PGID, home |-> "/tmp"]
    ELSE [uid |-> PUID, gid |-> PGID, home |-> "/tmp"]

----------------------------------------------------------------------------
(* Directories *)

\* ensure_dirs: mkdir(parents=True, exist_ok=True) of the three directories
EnsureDirs(ds) == ds \cup {DATA_DIR, MUSIC_DIR, INBOX_DIR, Parent(SNIPPETS_FILE)}

\* open(p, "w"/"a") can create or open p
CanOpenForWrite(ds, p) == Parent(p) \in ds /\ p \notin ds

----------------------------------------------------------------------------
(* File system operations *)

EmptyFs == [p \in {} |-> <<>>]

\* open(p, "wb") and write: the content is replaced
WriteFile(fsys, p, content) ==
    [q \in (DOMAIN fsys) \cup {p} |-> IF q = p THEN content ELSE fsys[q]]

\* open(p, "a") and write: the content is extended
AppendFile(fsys, p, chunk) ==
    WriteFile(fsys, p, IF p \in DOMAIN fsys THEN Append(fsys[p], chunk) ELSE <<chunk>>)

\* os.unlink with the OSError of a missing file swallowed
Unlink(fsys, p) == [q \in (DOMAIN fsys) \ {p} |-> fsys[q]]

\* TemporaryDirectory.__exit__: the directory and all below it are removed
RemoveTreeFiles(fsys, d) == [q \in {x \in DOMAIN fsys : ~IsUnder(x, d)} |-> fsys[q]]
RemoveTreeDirs(ds, d) == {x \in ds : x # d /\ ~IsUnder(x, d)}

\* beets, on success, moves the tracks below src into the music store
MoveTracks(fsys, src) ==
    LET moved == {x \in DOMAIN fsys : IsUnder(x, src)}
        kept == (DOMAIN fsys) \ moved
        target(x) == MUSIC_DIR \o <<x[Len(x)]>>
    IN [q \in kept \cup {target(x) : x \in moved} |->
            IF \E x \in moved : target(x) = q
            THEN fsys[CHOOSE x \in moved : target(x) = q]
            ELSE fsys[q]]

----------------------------------------------------------------------------
(* Outcomes of the external collaborators *)

\* before the subprocess: reading the template, writing the temporary file
PreOutcomes == {"ok", "cfg_missing", "tmp_write_fail"}
\* subprocess.run
BeetOutcomes == {"exit0", "exit_nonzero", "not_found", "timeout", "spawn_error"}
Outputs == {"", "text"}
\* client.get and raise_for_status
RescanOutcomes == {"ok", "network_error", "http_error", "timeout"}
IoOutcomes == {"ok", "io_error"}

\* bug variant: the exit code is not looked at
ImportOkAnyExit(out) == out \in {"exit0", "exit_nonzero"}

\* import_music_with_beets' first result: result.returncode == 0
ImportOk(out) == out = "exit0"

NonEmpty(x) == x # ""

\* import_music_with_beets' second result
ImportMsg(out, stdout, stderr) ==
    CASE out = "exit0" -> IF stdout # "" THEN <<stdout>> ELSE <<"Beets import complete.">>
      [] out = "exit_nonzero" ->
            LET detail == SelectSeq(<<stderr, stdout>>, NonEmpty)
            IN IF detail # <<>> THEN detail ELSE <<"Beets import failed.">>
      [] out = "not_found" -> <<"beets not found - is it installed in the container?">>
      [] out = "cfg_missing" -> <<"beets not found - is it installed in the container?">>
      [] out = "timeout" -> <<"Beets import timed out after 5 minutes.">>
      [] OTHER -> <<"error: ", out>>

\* navidrome_rescan: every exception is turned into (False, message)
NavidromeRescan(out) ==
    IF out = "ok" THEN [ok |-> TRUE, msg |-> <<"Navidrome rescan triggered.">>]
    ELSE [ok |-> FALSE, msg |-> <<"Navidrome rescan failed: ", out>>]

\* the music branch's final message
FinalMsg(scan) ==
    LET base == IF scan.ok THEN <<"Music imported successfully. Navidrome rescan triggered.">>
                ELSE <<"Music imported successfully.">>
    IN IF scan.msg # <<>> THEN base \o scan.msg ELSE base

----------------------------------------------------------------------------
(* Requests *)

Ids == 1..MaxRequests

\* the handler's locals; pc: "new" (not yet arrived), "beet" (inside
\* subprocess.run), "rescan" (inside client.get), "done"
Request(pc, user, pass, workflow, file, text) ==
    [pc |-> pc, user |-> user, pass |-> pass, workflow |-> workflow, file |-> file,
     text |-> text, tmpdir |-> <<>>, cfg |-> <<>>, dest |-> <<>>, extracted |-> FALSE,
     importOutcome |-> "none", proc |-> NoProc, rescans |-> 0]

\* a slot no handler is running in
Idle(pc) == [pc |-> pc]

\* the handler is inside one of its blocking calls
Blocking(rq) == rq.pc \in {"beet", "rescan"}

\* a completed request: what was asked, what was answered, what was done
Completed(route, id, rq, status, envelope, ok, msg, challenge) ==
    [route |-> route, id |-> id, user |-> rq.user, pass |-> rq.pass,
     workflow |-> rq.workflow, file |-> rq.file, text |-> rq.text,
     status |-> status, envelope |-> envelope, ok |-> ok, msg |-> msg,
     challenge |-> challenge, extracted |-> rq.extracted,
     importOutcome |-> rq.importOutcome, proc |-> rq.proc, rescans |-> rq.rescans]

NoRequest == Request("done", "", "", "", NoFile, NoText)

NoLast == Completed("none", 0, NoRequest, 0, FALSE, FALSE, <<>>, FALSE)

\* JSONResponse({"ok": ..., "message": ...}, status_code=...)
Json(id, rq, status, ok, msg) == Completed("upload", id, rq, status, TRUE, ok, msg, FALSE)

\* an exception leaves the handler: the framework answers 500 without the envelope
Unhandled(id, rq) ==
    Completed("upload", id, rq, 500, FALSE, FALSE, <<"Internal Server Error">>, FALSE)

\* HTTPException(401, headers={"WWW-Authenticate": "Basic"})
Unauthorized(route, id, rq) ==
    Completed(route, id, rq, 401, FALSE, FALSE, <<"Unauthorized">>, TRUE)

\* file.filename or "upload"
FilenameOf(file) == IF file.filename = <<>> THEN <<"upload">> ELSE file.filename

----------------------------------------------------------------------------
(* Initial state: the module is loaded, the startup event has not run *)

Init ==
    /\ started = "no"
    /\ env \in Envs
    /\ dirs = {ROOT, TMP_DIR}
    /\ fs = EmptyFs
    /\ req = [i \in Ids |-> Idle("new")]
    /\ loop = 0
    /\ nreq = 0
    /\ last = NoLast

\* the server accepts a request: it is up and the event loop is not occupied
LoopFree == started = "up" /\ loop = 0
Accepting == LoopFree /\ nreq < MaxRequests

\* startup_checks: ensure_dirs, chown of the music store, the beets directory
Startup ==
    /\ started = "no"
    /\ IF env.privDrop /\ ~ChownOk(env, PUID, PGID)
       THEN /\ started' = "failed"
            /\ dirs' = EnsureDirs(dirs)
       ELSE /\ started' = "up"
            /\ dirs' = EnsureDirs(dirs) \cup {<<"/", "config">>, BEETS_DIR}
    /\ UNCHANGED <<env, fs, req, loop, nreq, last>>

\* a request completes: its slot is closed, the loop released, the answer kept
Finish(id, answer) ==
    /\ req' = [req EXCEPT ![id] = Idle("done")]
    /\ loop' = 0
    /\ last' = answer

\* GET /health
Health ==
    /\ Accepting
    /\ nreq' = nreq + 1
    /\ Finish(nreq + 1, Completed("health", nreq + 1, NoRequest, 200, FALSE, TRUE, <<"ok">>, FALSE))
    /\ UNCHANGED <<started, env, dirs, fs>>

\* GET /
Index(user, pass) ==
    /\ Accepting
    /\ nreq' = nreq + 1
    /\ LET id == nreq + 1
           rq == Request("done", user, pass, "", NoFile, NoText)
       IN Finish(id, IF RequireAuth(user, pass)
                     THEN Completed("index", id, rq, 200, FALSE, TRUE, <<"index.html">>, FALSE)
                     ELSE Unauthorized("index", id, rq))
    /\ UNCHANGED <<started, env, dirs, fs>>

\* POST /upload with credentials require_auth rejects: the handler never runs
UploadUnauthorized(user, pass, workflow, file, text) ==
    /\ Accepting
    /\ ~RequireAuth(user, pass)
    /\ nreq' = nreq + 1
    /\ Finish(nreq + 1, Unauthorized("upload", nreq + 1,
                            Request("done", user, pass, workflow, file, text)))
    /\ UNCHANGED <<started, env, dirs, fs>>

\* POST /upload, workflow == "text" (lines 182-192)
UploadText(user, pass, file, text, io) ==
    /\ Accepting
    /\ RequireAuth(user, pass)
    /\ nreq' = nreq + 1
    /\ LET id == nreq + 1
           rq == Request("done", user, pass, "text", file, text)
           ds == EnsureDirs(dirs)
           path == Resolve(SNIPPETS_FILE)
       IN /\ dirs' = ds
          /\ IF text = NoText \/ text = <<>>
             THEN /\ fs' = fs
                  /\ Finish(id, Json(id, rq, 400, FALSE, <<"No text provided.">>))
             ELSE IF io # "ok" \/ ~CanOpenForWrite(ds, path)
             THEN /\ fs' = fs
                  /\ Finish(id, Unhandled(id, rq))
             ELSE /\ fs' = AppendFile(fs, path, SnippetRecord(text, id))
                  /\ Finish(id, Json(id, rq, 200, TRUE, <<"Text snippet appended successfully.">>))
    /\ UNCHANGED <<started, env>>

\* POST /upload, another workflow, without a file (lines 194-195)
UploadNoFile(user, pass, workflow, text) ==
    /\ Accepting
    /\ RequireAuth(user, pass)
    /\ workflow # "text"
    /\ nreq' = nreq + 1
    /\ dirs' = EnsureDirs(dirs)
    /\ Finish(nreq + 1, Json(nreq + 1, Request("done", user, pass, workflow, NoFile, text),
                             400, FALSE, <<"No file provided.">>))
    /\ UNCHANGED <<started, env, fs>>

\* POST /upload, a workflow that is none of text, music, inbox, with a file (lines 249-250)
UploadUnknown(user, pass, workflow, file, text) ==
    /\ Accepting
    /\ RequireAuth(user, pass)
    /\ workflow \notin {"text", "music", "inbox"}
    /\ file # NoFile
    /\ nreq' = nreq + 1
    /\ dirs' = EnsureDirs(dirs)
    /\ Finish(nreq + 1, Json(nreq + 1, Request("done", user, pass, workflow, file, text),
                             400, FALSE, <<"Unknown workflow: ", workflow>>))
    /\ UNCHANGED <<started, env, fs>>

\* POST /upload, workflow == "inbox" (lines 239-247).  The handler's only
\* suspension, await file.read(), comes before anything is written and after
\* nothing but ensure_dirs, so the handler is taken as one step, at its write.
UploadInbox(user, pass, file, text, io) ==
    /\ Accepting
    /\ RequireAuth(user, pass)
    /\ file # NoFile
    /\ nreq' = nreq + 1
    /\ LET id == nreq + 1
           ds == EnsureDirs(dirs)
           dest == Resolve(Join(INBOX_DIR, FilenameOf(file)))
           rq == [Request("done", user, pass, "inbox", file, text) EXCEPT !.dest = dest]
       IN /\ dirs' = ds
          /\ IF io # "ok" \/ ~CanOpenForWrite(ds, dest)
             THEN /\ fs' = fs
                  /\ Finish(id, Json(id, rq, 500, FALSE, <<"Error saving to inbox: ", "OSError">>))
             ELSE /\ fs' = WriteFile(fs, dest, <<RawChunk(file.bytes)>>)
                  /\ Finish(id, Json(id, rq, 200, TRUE, <<"File uploaded successfully.">>))
    /\ UNCHANGED <<started, env>>

\* the with-block of the music branch is left: the temporary directory goes, the
\* answer is sent
LeaveMusic(id, rq, fsys, answer) ==
    /\ fs' = RemoveTreeFiles(fsys, rq.tmpdir)
    /\ dirs' = RemoveTreeDirs(EnsureDirs(dirs), rq.tmpdir)
    /\ Finish(id, answer)

\* POST /upload, workflow == "music", up to the start of subprocess.run
\* (lines 199-224 and 124-148)
UploadMusic(user, pass, file, text, pre) ==
    /\ Accepting
    /\ RequireAuth(user, pass)
    /\ file # NoFile
    /\ nreq' = nreq + 1
    /\ LET id == nreq + 1
           tmpdir == TMP_DIR \o <<TmpDirNames[id]>>
           rq0 == [Request("beet", user, pass, "music", file, text) EXCEPT !.tmpdir = tmpdir]
           ds1 == EnsureDirs(dirs) \cup {tmpdir}
           tmp_path == Resolve(Join(tmpdir, FilenameOf(file)))
           fs1 == WriteFile(fs, tmp_path, <<RawChunk(file.bytes)>>)
           extract_dir == tmpdir \o <<"extracted">>
           rq1 == [rq0 EXCEPT !.extracted = TRUE]
           fs2 == WriteFile(fs1, extract_dir \o <<"track.mp3">>, <<Chunk("track", <<file.bytes>>, 0, "")>>)
           cfg == TMP_DIR \o <<TmpCfgNames[id]>>
           rq2 == [rq1 EXCEPT !.importOutcome = pre]
       IN IF ~CanOpenForWrite(ds1, tmp_path)
          THEN LeaveMusic(id, rq0, fs, Unhandled(id, rq0))
          ELSE IF ~IsZipfile(file.bytes)
          THEN LeaveMusic(id, rq0, fs1, Json(id, rq0, 400, FALSE, <<"File is not a zip archive.">>))
          ELSE IF extract_dir \in ds1 \/ extract_dir \in DOMAIN fs1
          THEN LeaveMusic(id, rq0, fs1, Unhandled(id, rq0))
          ELSE IF ~ExtractOk(file.bytes)
          THEN LeaveMusic(id, rq1, fs1, Unhandled(id, rq1))
          ELSE IF env.privDrop /\ ~ChownOk(env, PUID, PGID)
          THEN LeaveMusic(id, rq1, fs2, Unhandled(id, rq1))
          ELSE IF pre = "cfg_missing"
          THEN LeaveMusic(id, rq2, fs2, Json(id, rq2, 200, FALSE, ImportMsg(pre, "", "")))
          ELSE IF pre = "tmp_write_fail"
          THEN LeaveMusic(id, rq2, WriteFile(fs2, cfg, <<>>),
                          Json(id, rq2, 200, FALSE, ImportMsg(pre, "", "")))
          ELSE /\ fs' = WriteFile(fs2, cfg, <<Chunk("cfg", ResolveConfig(BeetsTemplate), 0, "")>>)
               /\ dirs' = ds1 \cup {extract_dir}
               /\ req' = [req EXCEPT ![id] = [rq1 EXCEPT !.cfg = cfg]]
               /\ loop' = id
               /\ last' = last
    /\ UNCHANGED <<started, env>>

\* subprocess.run returns or raises; except, finally; the import's result is
\* looked at and the rescan call starts (lines 140-165, 224-228, 85-98)
BeetReturns(id, out, stdout, stderr) ==
    /\ req[id].pc = "beet"
    /\ LET launched == out \in {"exit0", "exit_nonzero", "timeout"}
           rq == [req[id] EXCEPT !.importOutcome = out,
                                 !.proc = IF launched THEN DropPrivs(env) ELSE NoProc]
           fs1 == Unlink(fs, rq.cfg)
       IN IF ~ImportOk(out)
          THEN LeaveMusic(id, rq, fs1, Json(id, rq, 200, FALSE, ImportMsg(out, stdout, stderr)))
          ELSE /\ fs' = MoveTracks(fs1, rq.tmpdir \o <<"extracted">>)
               /\ req' = [req EXCEPT ![id] = [rq EXCEPT !.pc = "rescan", !.rescans = @ + 1]]
               /\ UNCHANGED <<dirs, loop, last>>
    /\ UNCHANGED <<started, env, nreq>>

\* client.get returns or raises; the answer of a successful import (lines 98-102, 228-237)
RescanReturns(id, out) ==
    /\ req[id].pc = "rescan"
    /\ LeaveMusic(id, req[id], fs, Json(id, req[id], 200, TRUE, FinalMsg(NavidromeRescan(out))))
    /\ UNCHANGED <<started, env, nreq>>

Next ==
    \/ Startup
    \/ Health
    \/ \E u \in Users, p \in Passwords : Index(u, p)
    \/ \E u \in Users, p \in Passwords, w \in Workflows, f \in SampleFiles :
          UploadUnauthorized(u, p, w, f, NoText)
    \/ \E u \in Users, p \in Passwords, f \in SampleFiles, t \in Texts, io \in IoOutcomes :
          UploadText(u, p, f, t, io)
    \/ \E u \in Users, p \in Passwords, w \in Workflows, t \in SampleTexts :
          UploadNoFile(u, p, w, t)
    \/ \E u \in Users, p \in Passwords, w \in Workflows, f \in SampleFiles, t \in SampleTexts :
          UploadUnknown(u, p, w, f, t)
    \/ \E u \in Users, p \in Passwords, f \in Files, io \in IoOutcomes :
          UploadInbox(u, p, f, NoText, io)
    \/ \E u \in Users, p \in Passwords, f \in Files, pre \in PreOutcomes :
          UploadMusic(u, p, f, NoText, pre)
    \/ \E id \in Ids, out \in BeetOutcomes, so \in Outputs, se \in Outputs :
          BeetReturns(id, out, so, se)
    \/ \E id \in Ids, out \in RescanOutcomes : RescanReturns(id, out)

Spec == Init /\ [][Next]_vars

----------------------------------------------------------------------------
(* Properties *)

\* the credentials of a request are exactly the configured pair
ExactMatch(r) == r.user = DROPZONE_USER /\ r.pass = DROPZONE_PASSWORD

\* an authenticated POST /upload that has been answered
AuthedUpload(l) == l.route = "upload" /\ ExactMatch(l)

\* this step answers a request
Answers == last'.id # last.id

Names(msg, word) == \E i \in DOMAIN msg : msg[i] = word

IsResolvedConfig(p) == \E i \in DOMAIN TmpCfgNames : p = TMP_DIR \o <<TmpCfgNames[i]>>

MusicStore(fsys) == [p \in {q \in DOMAIN fsys : IsUnder(q, MUSIC_DIR)} |-> fsys[p]]

Log(fsys) == IF SNIPPETS_FILE \in DOMAIN fsys THEN fsys[SNIPPETS_FILE] ELSE <<>>

\* C1: every authenticated upload with a workflow that is none of text, music,
\* inbox is answered 400, ok=false, with a message naming the workflow, with or
\* without a file or a text field.
C1_UnknownWorkflowNamed ==
    (AuthedUpload(last) /\ last.workflow \notin {"text", "music", "inbox"})
        => /\ last.status = 400
           /\ last.envelope
           /\ ~last.ok
           /\ Names(last.msg, last.workflow)

\* C2: whenever no request is inside subprocess.run, no resolved config file
\* exists: import_music_with_beets removed its temporary file on every exit path.
C2_NoLeftoverConfig ==
    (\A id \in Ids : req[id].pc # "beet")
        => \A p \in DOMAIN fs : ~IsResolvedConfig(p)

\* C3: for a music submission whose import was invoked, the import's outcome
\* alone decides ok and the number of rescan calls: exit 0 gives 200, ok=true
\* and exactly one rescan call whatever that call returns; any failure gives
\* 200, ok=false with the diagnostic and no rescan call.
C3_ImportDecides ==
    /\ \A id \in Ids :
          /\ req[id].pc = "beet" => req[id].rescans = 0
          /\ req[id].pc = "rescan" => req[id].importOutcome = "exit0" /\ req[id].rescans = 1
    /\ (AuthedUpload(last) /\ last.workflow = "music")
          => IF last.importOutcome = "exit0"
             THEN last.status = 200 /\ last.envelope /\ last.ok /\ last.rescans = 1
             ELSE /\ last.rescans = 0
                  /\ last.importOutcome # "none"
                        => /\ last.status = 200 /\ last.envelope /\ ~last.ok
                           /\ last.msg # <<>>
                           /\ ~Names(last.msg, "Music imported successfully.")
                           /\ ~Names(last.msg, "Music imported successfully. Navidrome rescan triggered.")

\* C3 witness: an import that exited 0 was answered ok=true after one rescan
\* call that failed.
C3_Witness ==
    /\ AuthedUpload(last) /\ last.workflow = "music"
    /\ last.importOutcome = "exit0" /\ last.ok /\ last.rescans = 1
    /\ Names(last.msg, "Navidrome rescan failed: ")

\* C4: a music submission whose payload is not a zip archive is answered 400
\* "File is not a zip archive.", and in that request nothing is extracted, the
\* import is not invoked, no rescan call is made and the music store is not
\* written.
C4_NotZipNoEffect ==
    [][ (Answers /\ AuthedUpload(last') /\ last'.workflow = "music"
            /\ last'.file # NoFile /\ ~IsZipfile(last'.file.bytes))
        => /\ last'.status = 400 /\ last'.envelope /\ ~last'.ok
           /\ last'.msg = <<"File is not a zip archive.">>
           /\ ~last'.extracted
           /\ last'.importOutcome = "none"
           /\ last'.rescans = 0
           /\ MusicStore(fs') = MusicStore(fs) ]_vars

\* C5: every authenticated upload is answered in the {ok, message} envelope,
\* with status 400, 500 or 200; nothing leaves the handler without it.
C5_AlwaysEnvelope ==
    AuthedUpload(last) => last.envelope /\ last.status \in {200, 400, 500}

\* C6: a request to a protected route whose credentials are not the configured
\* pair is answered 401 with the Basic challenge and has no effect (no file, no
\* directory, no handler started, no import, no rescan); only the exact pair
\* reaches the handler.
C6_AuthGate ==
    [][ /\ \A id \in Ids : Blocking(req'[id]) => ExactMatch(req'[id])
        /\ (Answers /\ last'.route \in {"index", "upload"})
            => IF ExactMatch(last')
               THEN last'.status # 401 /\ ~last'.challenge
               ELSE /\ last'.status = 401 /\ last'.challenge
                    /\ fs' = fs /\ dirs' = dirs
                    /\ \A id \in Ids : Blocking(req'[id]) => req'[id] = req[id]
                    /\ ~last'.extracted
                    /\ last'.importOutcome = "none"
                    /\ last'.rescans = 0 ]_vars

\* C6 witness: a music upload carrying a file, with the right user and a wrong
\* password, was answered 401 with the challenge.
C6_Witness ==
    /\ last.route = "upload" /\ last.status = 401 /\ last.challenge
    /\ last.user = DROPZONE_USER /\ last.pass # DROPZONE_PASSWORD
    /\ last.workflow = "music" /\ last.file # NoFile

\* C7: the snippet log only grows: an accepted text submission appends exactly
\* one record (trimmed text, timestamp, separator) and keeps what was there; a
\* text submission without text is answered 400; every other step leaves the
\* log as it was.
C7_LogAppendOnly ==
    [][ IF Answers /\ AuthedUpload(last') /\ last'.workflow = "text"
           /\ last'.text \notin {NoText, <<>>} /\ last'.ok
        THEN Log(fs') = Append(Log(fs), SnippetRecord(last'.text, last'.id))
        ELSE /\ Log(fs') = Log(fs)
             /\ (Answers /\ AuthedUpload(last') /\ last'.workflow = "text"
                    /\ last'.text \in {NoText, <<>>}) => last'.status = 400 ]_vars

\* C8: a successful inbox upload leaves, in the inbox store under the filename
\* the client gave, exactly the uploaded bytes, and changes no other file.
C8_InboxHoldsUpload ==
    [][ (Answers /\ AuthedUpload(last') /\ last'.workflow = "inbox" /\ last'.ok)
        => LET p == INBOX_DIR \o FilenameOf(last'.file)
           IN /\ p \in DOMAIN fs'
              /\ fs'[p] = <<RawChunk(last'.file.bytes)>>
              /\ \A q \in ((DOMAIN fs) \cup (DOMAIN fs')) \ {p} :
                    q \in DOMAIN fs /\ q \in DOMAIN fs' /\ fs'[q] = fs[q] ]_vars

\* C9: while a music request is inside subprocess.run or the rescan call, another
\* request (GET /health) can be accepted and answered.
C9_OthersProgress ==
    ((\E id \in Ids : Blocking(req[id])) /\ nreq < MaxRequests) => ENABLED Health

\* setting the group or the user identity fails in this deployment
IdentityChangeFails(e) == e.privDrop /\ (~SetgidOk(e, PGID) \/ ~SetuidOk(e, PUID))

\* C10: with PUID and PGID configured and the identity change failing, a music
\* upload of a valid archive still reaches the import, and the subprocess runs
\* with exactly the launching process's user and group.
C10_FallbackIdentity ==
    IdentityChangeFails(env)
        => /\ (AuthedUpload(last) /\ last.workflow = "music"
                  /\ last.file = [filename |-> <<"report.pdf">>, bytes |-> "ZIP"])
                => last.envelope /\ last.importOutcome # "none"
           /\ last.proc # NoProc => last.proc.uid = env.uid /\ last.proc.gid = env.gid
           /\ \A id \in Ids : (Blocking(req[id]) /\ req[id].proc # NoProc)
                => req[id].proc.uid = env.uid /\ req[id].proc.gid = env.gid

====
